---- MODULE Spec2Model ----
(***************************************************************************)
(* GKR protocol driver of gkr/src/gkr_protocol.rs: prove, verify and the   *)
(* polynomial builders they call.  The collaborating crates (circuit,      *)
(* multilinear polynomials, sum-check, Fiat-Shamir transcript) are not     *)
(* part of the source tree at hand; they are modelled from their           *)
(* description in the specification (sections 3, 4.1, 4.2 and 6).          *)
(* The field Fq is scaled down to a small prime field.                     *)
(***************************************************************************)
EXTENDS Integers, Sequences, FiniteSets, TLC

VARIABLES
    circuit,     \* Circuit.layers as constructed: input-adjacent layer first
    inputs,      \* the input vector handed to prove and to verify
    ppc,         \* position of the current prove call
    prover,      \* locals of the current prove call
    returned,    \* the Proofs returned by the prove calls so far
    proveLogs,   \* transcript operations of each finished prove call
    vpc,         \* position of the verify call
    verifier,    \* locals of the verify call
    tamper,      \* how the Proof handed to verify was derived
    vresult,     \* outcome of verify: "none", "true", "false" or "panic"
    stdout,      \* lines written by println!
    kernel       \* arguments and result of a direct add_mul_polynomials call

vars == <<circuit, inputs, ppc, prover, returned, proveLogs, vpc, verifier,
          tamper, vresult, stdout, kernel>>

\* ------------------------------------------------------------------ bounds
MaxInput == 1
MaxInvocations == 2
MaxLen == 2

\* ------------------------------------------------------------- field Fq
\* The modulus of the field all arithmetic is done in (a small prime in
\* place of the BN254 base field).
FqModulus == 7

Fq == 0 .. (FqModulus - 1)

FqFrom(n) == n % FqModulus

FAdd(a, b) == (a + b) % FqModulus

FSub(a, b) == (a + FqModulus - b) % FqModulus

FMul(a, b) == (a * b) % FqModulus

FInv(a) == CHOOSE x \in Fq : FMul(a, x) = 1

Ops == {"Add", "Mul"}

\* Operation::apply
Apply(op, a, b) == IF op = "Add" THEN FAdd(a, b) ELSE FMul(a, b)

\* ------------------------------------------------------ sequence helpers
\* A function over 1 .. n as a vector with its elements computed once.
Vec(f) == f \o <<>>

\* Op applied to arguments that are computed once, before the call (as a
\* Rust call does), however often Op reads them.
Call1(Op(_), a) == CHOOSE out \in { Op(x) : x \in {a} } : TRUE

Call2(Op(_, _), a, b) ==
    CHOOSE out \in { Op(x[1], x[2]) : x \in {<<a, b>>} } : TRUE

Call3(Op(_, _, _), a, b, c) ==
    CHOOSE out \in { Op(x[1], x[2], x[3]) : x \in {<<a, b, c>>} } : TRUE

Call4(Op(_, _, _, _), a, b, c, d) ==
    CHOOSE out \in { Op(x[1], x[2], x[3], x[4]) : x \in {<<a, b, c, d>>} } : TRUE

Call5(Op(_, _, _, _, _), a, b, c, d, e) ==
    CHOOSE out \in { Op(x[1], x[2], x[3], x[4], x[5]) :
                       x \in {<<a, b, c, d, e>>} } : TRUE

RECURSIVE SumFrom(_, _)
SumFrom(s, k) ==
    IF k > Len(s) THEN 0 ELSE FAdd(s[k], Call2(SumFrom, s, k + 1))

SeqSum(s) == Call2(SumFrom, s, 1)

\* The mutation: the vector is left in the order it has.
Unreversed(s) == s

Reverse(s) == Vec([i \in 1 .. Len(s) |-> s[Len(s) + 1 - i]])

RECURSIVE FlattenFrom(_, _)
FlattenFrom(ss, k) ==
    IF k > Len(ss) THEN <<>> ELSE ss[k] \o Call2(FlattenFrom, ss, k + 1)

Flatten(ss) == Call2(FlattenFrom, ss, 1)

RECURSIVE Log2(_)
Log2(n) == IF n <= 1 THEN 0 ELSE 1 + Log2(n \div 2)

RECURSIVE Pow2(_)
Pow2(k) == IF k = 0 THEN 1 ELSE 2 * Pow2(k - 1)

\* ------------------------------------------- multilinear polynomials
\* A MultilinearPoly is its evaluation vector over the boolean hypercube;
\* variable 0 is the most significant bit of the (0-based) index.

\* one variable bound to r: entries stride apart are joined
BindAtStride(t, stride, r) ==
    Vec([k \in 1 .. (Len(t) \div 2) |->
            LET j  == k - 1
                i0 == ((j \div stride) * 2 * stride) + (j % stride) + 1
                i1 == i0 + stride
            IN  FAdd(t[i0], FMul(r, FSub(t[i1], t[i0])))])

PartialEvaluateBody(t, var_index, r) ==
    Call3(BindAtStride, t, Pow2(Log2(Len(t)) - 1 - var_index), r)

\* MultilinearPoly::partial_evaluate(var_index, value)
PartialEvaluate(t, var_index, r) == Call3(PartialEvaluateBody, t, var_index, r)

RECURSIVE MultiPartialEvaluateBody(_, _)
MultiPartialEvaluateBody(t, values) ==
    IF values = <<>> THEN t
    ELSE Call2(MultiPartialEvaluateBody,
               PartialEvaluate(t, Log2(Len(t)) - 1, values[Len(values)]),
               SubSeq(values, 1, Len(values) - 1))

\* MultilinearPoly::multi_partial_evaluate(values): binds the trailing
\* Len(values) variables, values[k] to the k-th of them (specification,
\* sections 4.2 and 6).
MultiPartialEvaluate(t, values) == Call2(MultiPartialEvaluateBody, t, values)

RECURSIVE EvaluateBody(_, _)
EvaluateBody(t, point) ==
    IF point = <<>> THEN t[1]
    ELSE Call2(EvaluateBody, PartialEvaluate(t, 0, Head(point)), Tail(point))

\* MultilinearPoly::evaluate(point), the point having one value per variable
Evaluate(t, point) == Call2(EvaluateBody, t, point)

ScaleBody(t, c) == Vec([k \in 1 .. Len(t) |-> FMul(t[k], c)])

\* MultilinearPoly::scale
Scale(t, c) == Call2(ScaleBody, t, c)

PolyAddBody(s, t) == Vec([k \in 1 .. Len(s) |-> FAdd(s[k], t[k])])

\* impl Add for MultilinearPoly
PolyAdd(s, t) == Call2(PolyAddBody, s, t)

\* ------------------------------------------------ add_mul_polynomials
\* The inner loop of add_mul_polynomials for one element a of poly_a.
InnerLoop(a, poly_b, op) ==
    Vec([j \in 1 .. Len(poly_b) |-> Apply(op, a, poly_b[j])])

OuterLoop(poly_a, poly_b, op) ==
    Flatten(Vec([i \in 1 .. Len(poly_a) |-> InnerLoop(poly_a[i], poly_b, op)]))

SwappedLoops(poly_a, poly_b, op) ==
    Flatten(Vec([j \in 1 .. Len(poly_b) |->
                Vec([i \in 1 .. Len(poly_a) |-> Apply(op, poly_a[i], poly_b[j])])]))

\* The mutation: the two loops nested the other way round.
AddMulSwapped(poly_a, poly_b, op) == Call3(SwappedLoops, poly_a, poly_b, op)

\* for a in poly_a { for b in poly_b { new_eval.push(op.apply(*a, *b)) } }
add_mul_polynomials(poly_a, poly_b, op) == Call3(OuterLoop, poly_a, poly_b, op)

\* -------------------------------------------------------- transcript
\* The hash state is a number; absorbing and squeezing are fixed maps of it.
TranscriptModulus == 251

\* Transcript::<Fq>::new()
TranscriptNew == [st |-> 0, log |-> <<>>]

\* fq_vec_to_bytes: two little-endian bytes per field element
fq_vec_to_bytes(v) ==
    Flatten(Vec([k \in 1 .. Len(v) |-> <<v[k] % 256, (v[k] \div 256) % 256>>]))

RECURSIVE AbsorbFrom(_, _, _)
AbsorbFrom(st, bytes, k) ==
    IF k > Len(bytes) THEN st
    ELSE Call3(AbsorbFrom, ((st * 31) + bytes[k] + 1) % TranscriptModulus,
               bytes, k + 1)

Absorb(st, bytes) == Call3(AbsorbFrom, st, bytes, 1)

TranscriptAppendBody(t, vals) ==
    [st  |-> Absorb(t.st, fq_vec_to_bytes(vals)),
     log |-> Append(t.log, <<"append", vals>>)]

\* transcript.append(&fq_vec_to_bytes(vals))
TranscriptAppend(t, vals) == Call2(TranscriptAppendBody, t, vals)

Digest(st) == ((st * 37) + 11) % TranscriptModulus

ChallengeBody(t) == FqFrom(Digest(t.st))

\* the value transcript.get_random_challenge() returns
Challenge(t) == Call1(ChallengeBody, t)

TranscriptSampleBody(t) ==
    [st  |-> Digest(t.st),
     log |-> Append(t.log, <<"sample", ChallengeBody(t)>>)]

\* the transcript after transcript.get_random_challenge()
TranscriptSample(t) == Call1(TranscriptSampleBody, t)

\* ------------------------------------------- univariate polynomials
\* A UnivariatePoly is its coefficient vector, constant term first.
RECURSIVE HornerFrom(_, _, _)
HornerFrom(coeffs, x, k) ==
    IF k > Len(coeffs) THEN 0
    ELSE FAdd(coeffs[k], FMul(x, Call3(HornerFrom, coeffs, x, k + 1)))

\* UnivariatePoly::evaluate
UniEvaluate(coeffs, x) == Call3(HornerFrom, coeffs, x, 1)

InterpolateBody(e0, e1, e2) ==
    LET c2 == FMul(FInv(2), FAdd(FSub(e0, FMul(2, e1)), e2))
        c1 == FSub(FSub(e1, e0), c2)
    IN  <<e0, c1, c2>>

\* the polynomial of degree <= 2 through (0, e0), (1, e1), (2, e2)
Interpolate(e0, e1, e2) == Call3(InterpolateBody, e0, e1, e2)

\* ---------------------------------------------------------- sum-check
\* A SumPoly is a sequence of ProductPolys, a ProductPoly a sequence of
\* equal-length evaluation vectors.

PointwiseProductSum(s, t) == SeqSum(Vec([j \in 1 .. Len(s) |-> FMul(s[j], t[j])]))

\* sum over the hypercube of one product with its first variable set to x
ProductSumAt(prod, x) ==
    Call2(PointwiseProductSum, PartialEvaluate(prod[1], 0, x),
                               PartialEvaluate(prod[2], 0, x))

RoundEvalBody(f, x) == SeqSum(Vec([p \in 1 .. Len(f) |-> ProductSumAt(f[p], x)]))

RoundEval(f, x) == Call2(RoundEvalBody, f, x)

\* the round polynomial: the sum over the hypercube as a polynomial in the
\* first variable, of degree 2
RoundPoly(f) == Interpolate(RoundEval(f, 0), RoundEval(f, 1), RoundEval(f, 2))

SumPolyBindBody(f, r) ==
    Vec([p \in 1 .. Len(f) |->
        Vec([k \in 1 .. Len(f[p]) |-> PartialEvaluate(f[p][k], 0, r)])])

\* SumPoly::partial_evaluate: binds the first variable of every factor
SumPolyBind(f, r) == Call2(SumPolyBindBody, f, r)

SumPolyEvaluateBody(f, point) ==
    SeqSum(Vec([p \in 1 .. Len(f) |->
               FMul(Evaluate(f[p][1], point), Evaluate(f[p][2], point))]))

\* SumPoly::evaluate(point)
SumPolyEvaluate(f, point) == Call2(SumPolyEvaluateBody, f, point)

RECURSIVE GkrProveRounds(_, _, _, _)
\* one round, given the round polynomial p and the transcript t1 holding it
GkrProveRound(f, t1, polys, rs, p) ==
    Call4(GkrProveRounds, SumPolyBind(f, Challenge(t1)), TranscriptSample(t1),
          Append(polys, p), Append(rs, Challenge(t1)))

GkrProveAppend(f, t, polys, rs, p) ==
    Call5(GkrProveRound, f, TranscriptAppend(t, p), polys, rs, p)

GkrProveRounds(f, t, polys, rs) ==
    IF Len(f[1][1]) <= 1
    THEN [proof_polynomials |-> polys, random_challenges |-> rs, transcript |-> t]
    ELSE Call5(GkrProveAppend, f, t, polys, rs, RoundPoly(f))

\* sum_check::gkr_prove(claimed_sum, &fbc_poly, &mut transcript): per round,
\* the round polynomial is appended and the challenge that binds the next
\* variable is sampled
gkr_prove(claimed_sum, f, t) == Call4(GkrProveRounds, f, t, <<>>, <<>>)

RECURSIVE GkrVerifyRounds(_, _, _, _, _)
\* one accepted round, given the transcript t1 holding the round polynomial
GkrVerifyRound(polys, t1, rs, k) ==
    Call5(GkrVerifyRounds, polys, UniEvaluate(polys[k], Challenge(t1)),
          TranscriptSample(t1), Append(rs, Challenge(t1)), k + 1)

GkrVerifyRounds(polys, claim, t, rs, k) ==
    IF k > Len(polys)
    THEN [verified |-> TRUE, final_claimed_sum |-> claim,
          random_challenges |-> rs, transcript |-> t]
    ELSE IF \/ Len(polys[k]) > 3
            \/ FAdd(UniEvaluate(polys[k], 0), UniEvaluate(polys[k], 1)) # claim
    THEN [verified |-> FALSE, final_claimed_sum |-> claim,
          random_challenges |-> rs, transcript |-> t]
    ELSE Call4(GkrVerifyRound, polys, TranscriptAppend(t, polys[k]), rs, k)

\* sum_check::gkr_verify(round_polys, claim, &mut transcript): per round,
\* the degree and p(0) + p(1) = claim are checked, the round polynomial is
\* appended, a challenge r is sampled and the claim becomes p(r)
gkr_verify(round_polys, claim, t) ==
    Call5(GkrVerifyRounds, round_polys, claim, t, <<>>, 1)

\* ------------------------------------------------------------ circuit
\* the values of one layer from the values one step deeper
LayerEvaluate(layer, below) ==
    Vec([g \in 1 .. Len(layer) |-> Apply(layer[g], below[(2 * g) - 1], below[2 * g])])

RECURSIVE EvaluateFrom(_, _, _)
EvaluateFrom(layers, below, d) ==
    IF d > Len(layers) THEN <<below>>
    ELSE <<below>> \o
         Call3(EvaluateFrom, layers, LayerEvaluate(layers[d], below), d + 1)

\* Circuit::evaluate: values per layer, the inputs first, the output last
CircuitEvaluate(layers, below) == Call3(EvaluateFrom, layers, below, 1)

WiringTable(layer, op) ==
    LET w == 2 * Len(layer)
    IN  Vec([k \in 1 .. (2 * w * w) |->
            IF \E a \in 0 .. (Len(layer) - 1) :
                   /\ layer[a + 1] = op
                   /\ k - 1 = (a * w * w) + (2 * a * w) + (2 * a) + 1
            THEN 1 ELSE 0])

\* Layer::get_add_mul_i(op): the wiring predicate over (a, b, c), a 1 at
\* index a*w^2 + b*w + c for every gate a of type op reading b = 2a, c = 2a+1
get_add_mul_i(layer, op) == Call2(WiringTable, layer, op)

\* ------------------------------------------------- polynomial builders
FbcBody(random_challenge, layer, w_b, w_c) ==
    LET add_i == PartialEvaluate(get_add_mul_i(layer, "Add"), 0, random_challenge)
        mul_i == PartialEvaluate(get_add_mul_i(layer, "Mul"), 0, random_challenge)
        summed_w_poly     == add_mul_polynomials(w_b, w_c, "Add")
        multiplied_w_poly == add_mul_polynomials(w_b, w_c, "Mul")
    IN  << <<add_i, summed_w_poly>>, <<mul_i, multiplied_w_poly>> >>

get_fbc_poly(random_challenge, layer, w_b, w_c) ==
    Call4(FbcBody, random_challenge, layer, w_b, w_c)

MergedWiring(i_poly, r_b, r_c, alpha, beta) ==
    PolyAdd(Scale(MultiPartialEvaluate(i_poly, r_b), alpha),
            Scale(MultiPartialEvaluate(i_poly, r_c), beta))

MergedFbcBody(layer, w, r, alpha, beta) ==
    LET add_i == get_add_mul_i(layer, "Add")
        mul_i == get_add_mul_i(layer, "Mul")
        summed_w_poly     == add_mul_polynomials(w[1], w[2], "Add")
        multiplied_w_poly == add_mul_polynomials(w[1], w[2], "Mul")
        summed_add_i == Call5(MergedWiring, add_i, r[1], r[2], alpha, beta)
        summed_mul_i == Call5(MergedWiring, mul_i, r[1], r[2], alpha, beta)
    IN  << <<summed_add_i, summed_w_poly>>, <<summed_mul_i, multiplied_w_poly>> >>

get_merged_fbc_poly(layer, w_b, w_c, r_b, r_c, alpha, beta) ==
    Call5(MergedFbcBody, layer, <<w_b, w_c>>, <<r_b, r_c>>, alpha, beta)

\* The mutation: the first part is taken from the upper half.
UpperHalf(s) == SubSeq(s, (Len(s) - (Len(s) \div 2)) + 1, Len(s))

\* split_at(len / 2)
FirstHalf(s) == SubSeq(s, 1, Len(s) \div 2)

SecondHalf(s) == SubSeq(s, (Len(s) \div 2) + 1, Len(s))

\* initiate_protocol, given the transcript t1 holding the output evaluations
InitiateSampled(t1, output_poly, m_0) ==
    [m_0 |-> m_0, random_challenge |-> Challenge(t1),
     transcript |-> TranscriptAppend(TranscriptSample(t1), <<m_0>>)]

InitiateAppended(t1, output_poly) ==
    Call3(InitiateSampled, t1, output_poly,
          Evaluate(output_poly, <<Challenge(t1)>>))

\* initiate_protocol(transcript, output_poly)
initiate_protocol(t, output_poly) ==
    Call2(InitiateAppended, TranscriptAppend(t, output_poly), output_poly)

\* ------------------------------------------------------- initial states
\* Gate counts per layer, input-adjacent layer first, of the circuits drawn.
Shapes == { <<1>>, <<2>>, <<2, 1>> }

LayersOf(shape) ==
    { ls \in [1 .. Len(shape) -> UNION { [1 .. n -> Ops] : n \in 1 .. 2 }] :
        \A d \in 1 .. Len(shape) : Len(ls[d]) = shape[d] }

Circuits == UNION { LayersOf(shape) : shape \in Shapes }

InputsOf(layers) == [1 .. (2 * Len(layers[1])) -> 0 .. MaxInput]

NoProver ==
    [transcript |-> TranscriptNew, circuit_evaluations |-> <<>>,
     output_poly |-> <<>>, claimed_sum |-> 0, random_challenge |-> 0,
     proof_polys |-> <<>>, claimed_evaluations |-> <<>>,
     current_alpha |-> 0, current_beta |-> 0,
     current_rb |-> <<>>, current_rc |-> <<>>,
     idx |-> 0, sumcheck_runs |-> 0, trace |-> <<>>]

NoProof == [output_poly |-> <<>>, proof_polynomials |-> <<>>,
            claimed_evaluations |-> <<>>]

NoVerifier ==
    [transcript |-> TranscriptNew, proof |-> NoProof, layers |-> <<>>,
     current_claim |-> 0, current_random_challenge |-> 0,
     sumcheck_random_challenges |-> <<>>,
     current_alpha |-> 0, current_beta |-> 0,
     i |-> 0, sum_check_verify |-> <<>>, trace |-> <<>>]

NoKernel == [poly_a |-> <<>>, poly_b |-> <<>>, op |-> "Add",
             result |-> <<>>, called |-> FALSE]

Init ==
    /\ circuit \in Circuits
    /\ inputs \in InputsOf(circuit)
    /\ ppc = "idle"
    /\ prover = NoProver
    /\ returned = <<>>
    /\ proveLogs = <<>>
    /\ vpc = "idle"
    /\ verifier = NoVerifier
    /\ tamper = "none"
    /\ vresult = "none"
    /\ stdout = <<>>
    /\ kernel = NoKernel

\* ---------------------------------------------------------------- prove
\* The mutation: a call starts from the transcript the last call left.
ProveTranscriptStale == prover.transcript

\* let mut transcript = Transcript::<Fq>::new();
ProveTranscript == TranscriptNew

\* The mutation: the output is padded with one, not zero.
PadOne(w_0) == IF Len(w_0) = 1 THEN Append(w_0, FqFrom(1)) ELSE w_0

\* if w_0.len() == 1 { w_0.push(Fq::from(0)) }
PadOutput(w_0) == IF Len(w_0) = 1 THEN Append(w_0, FqFrom(0)) ELSE w_0

\* The mutation: the loop stops one layer early.
NumIterationsShort(layers) == Len(layers) - 1

\* for idx in 0..circuit.layers.len()
NumIterations(layers) == Len(layers)

\* The mutation: the claimed pair is put in front of the earlier ones.
PushFront(claimed_evaluations, pair) == <<pair>> \o claimed_evaluations

\* claimed_evaluations.push((o_1, o_2))
PushClaimed(claimed_evaluations, pair) == Append(claimed_evaluations, pair)

\* The mutation: the challenge is drawn before the value is appended.
SampleThenAppend(transcript, o) ==
    [challenge  |-> Challenge(transcript),
     transcript |-> TranscriptAppend(TranscriptSample(transcript), <<o>>)]

AppendThenSampleBody(t1) ==
    [challenge |-> Challenge(t1), transcript |-> TranscriptSample(t1)]

\* transcript.append(&fq_vec_to_bytes(&[o])); transcript.get_random_challenge()
AppendThenSample(transcript, o) ==
    Call1(AppendThenSampleBody, TranscriptAppend(transcript, <<o>>))

\* The mutation: the two coefficients are exchanged.
FoldClaimSwapped(alpha, beta, o_1, o_2) ==
    FAdd(FMul(beta, o_1), FMul(alpha, o_2))

\* claimed_sum = (current_alpha * o_1) + (current_beta * o_2)
FoldClaim(alpha, beta, o_1, o_2) == FAdd(FMul(alpha, o_1), FMul(beta, o_2))

\* The mutation: the layers of the circuit itself are reversed.
ReversedInPlace(layers) == Reverse(layers)

\* let mut layers = circuit.layers.clone(); layers.reverse(): circuit.layers
\* after the two statements
LayersAfterClone(layers) == layers

\* prove, up to the loop
ProveStart ==
    /\ ppc = "idle"
    /\ vpc = "idle"
    /\ Len(returned) < MaxInvocations
    /\ \E transcript \in {ProveTranscript} :
       \E circuit_evaluations \in {CircuitEvaluate(circuit, inputs)} :
       \E w_0 \in {PadOutput(circuit_evaluations[Len(circuit_evaluations)])} :
       \E output_poly \in {w_0} :
       \E init \in {initiate_protocol(transcript, output_poly)} :
           prover' = [NoProver EXCEPT
                        !.transcript = init.transcript,
                        !.circuit_evaluations = Reverse(circuit_evaluations),
                        !.output_poly = output_poly,
                        !.claimed_sum = init.m_0,
                        !.random_challenge = init.random_challenge]
    /\ ppc' = "loop"
    /\ UNCHANGED <<circuit, inputs, returned, proveLogs, vpc, verifier,
                   tamper, vresult, stdout, kernel>>

\* one iteration of the loop of prove; each \E names one value the body
\* computes, in the order the body computes them
ProveLayer ==
    /\ ppc = "loop"
    /\ prover.idx < NumIterations(circuit)
    /\ \E idx \in {prover.idx} :
       \E layers \in {Reverse(circuit)} :
       \E w_i \in {IF idx = Len(circuit) - 1
                   THEN inputs
                   ELSE prover.circuit_evaluations[idx + 2]} :
       \E fbc_poly \in
              {IF idx = 0
               THEN get_fbc_poly(prover.random_challenge, layers[idx + 1], w_i, w_i)
               ELSE get_merged_fbc_poly(layers[idx + 1], w_i, w_i,
                                        prover.current_rb, prover.current_rc,
                                        prover.current_alpha, prover.current_beta)} :
       \E sum_check_proof \in
              {gkr_prove(prover.claimed_sum, fbc_poly, prover.transcript)} :
       \E r_b \in {FirstHalf(sum_check_proof.random_challenges)} :
       \E r_c \in {SecondHalf(sum_check_proof.random_challenges)} :
       \E o_1 \in {Evaluate(w_i, r_b)} :
       \E o_2 \in {Evaluate(w_i, r_c)} :
       \E s1 \in {AppendThenSample(sum_check_proof.transcript, o_1)} :
       \E alpha \in {s1.challenge} :
       \E s2 \in {AppendThenSample(s1.transcript, o_2)} :
       \E beta \in {s2.challenge} :
       \E t3 \in {s2.transcript} :
         /\ circuit' = LayersAfterClone(circuit)
         /\ prover' = [prover EXCEPT
                        !.transcript = TranscriptSample(t3),
                        !.proof_polys = Append(@, sum_check_proof.proof_polynomials),
                        !.current_rb = r_b,
                        !.current_rc = r_c,
                        !.current_alpha = alpha,
                        !.current_beta = beta,
                        !.claimed_sum = FoldClaim(alpha, beta, o_1, o_2),
                        !.claimed_evaluations = PushClaimed(@, <<o_1, o_2>>),
                        !.random_challenge = Challenge(t3),
                        !.idx = idx + 1,
                        !.sumcheck_runs = @ + 1,
                        !.trace = Append(@,
                            [idx |-> idx,
                             layer |-> layers[idx + 1],
                             fbc_poly |-> fbc_poly,
                             log_before |-> Len(sum_check_proof.transcript.log),
                             form |-> IF idx = 0 THEN "initial" ELSE "merged",
                             r |-> prover.random_challenge,
                             r_b |-> prover.current_rb, r_c |-> prover.current_rc,
                             alpha |-> prover.current_alpha,
                             beta |-> prover.current_beta,
                             w_i |-> w_i,
                             claimed_sum |-> prover.claimed_sum,
                             proof_polynomials |-> sum_check_proof.proof_polynomials,
                             random_challenges |-> sum_check_proof.random_challenges,
                             o_1 |-> o_1, o_2 |-> o_2,
                             new_alpha |-> alpha, new_beta |-> beta])]
    /\ UNCHANGED <<inputs, ppc, returned, proveLogs, vpc, verifier,
                   tamper, vresult, stdout, kernel>>

\* Proof { output_poly, proof_polynomials: proof_polys, claimed_evaluations }
ProveReturn ==
    /\ ppc = "loop"
    /\ prover.idx >= NumIterations(circuit)
    /\ returned' = Append(returned,
                          [output_poly |-> prover.output_poly,
                           proof_polynomials |-> prover.proof_polys,
                           claimed_evaluations |-> prover.claimed_evaluations])
    /\ proveLogs' = Append(proveLogs, prover.transcript.log)
    /\ ppc' = "idle"
    /\ UNCHANGED <<circuit, inputs, prover, vpc, verifier, tamper, vresult,
                   stdout, kernel>>

\* --------------------------------------------------------------- verify
\* The Proofs verify is run on: the one prove returned, and that Proof
\* with one part changed or one trailing entry missing.
TamperKinds == {"honest", "drop_polys", "drop_claims", "output", "claim", "round"}

DropLast(s) == SubSeq(s, 1, Len(s) - 1)

Tampered(proof, kind) ==
    CASE kind = "honest" -> proof
      [] kind = "drop_polys" ->
            [proof EXCEPT !.proof_polynomials = DropLast(@)]
      [] kind = "drop_claims" ->
            [proof EXCEPT !.claimed_evaluations = DropLast(@)]
      [] kind = "output" ->
            [proof EXCEPT !.output_poly[1] = FAdd(@, 1)]
      [] kind = "claim" ->
            [proof EXCEPT !.claimed_evaluations[1][1] = FAdd(@, 1)]
      [] kind = "round" ->
            [proof EXCEPT !.proof_polynomials[1][1][1] = FAdd(@, 1)]

\* a tampering changes an entry the Proof has
Applicable(proof, kind) ==
    CASE kind \in {"drop_polys", "round"} -> proof.proof_polynomials # <<>>
      [] kind \in {"drop_claims", "claim"} -> proof.claimed_evaluations # <<>>
      [] OTHER -> TRUE

\* The mutation: a rejected sum-check is taken as accepted.
SumcheckAlwaysAccepted(sum_check_verify) == TRUE

\* if !sum_check_verify.verified { return false; }
SumcheckAccepted(sum_check_verify) == sum_check_verify.verified

\* The mutation: the layer claim is not compared.
ClaimAlwaysHolds(claim, final_claimed_sum) == TRUE

\* if claim == sum_check_verify.final_claimed_sum
ClaimHolds(claim, final_claimed_sum) == claim = final_claimed_sum

\* The mutation: the result of the comparison is not used.
FinalAcceptAlways(input_layer_claim, current_claim) == TRUE

\* input_layer_claim == current_claim
FinalAccept(input_layer_claim, current_claim) == input_layer_claim = current_claim

\* The mutation: the two halves are put in the other order.
AssemblePointSwapped(init_random_challenge, r_b, r_c) ==
    <<init_random_challenge>> \o r_c \o r_b

\* all_random_challenges: push(init_random_challenge), extend(r_b), extend(r_c)
AssemblePoint(init_random_challenge, r_b, r_c) ==
    <<init_random_challenge>> \o r_b \o r_c

\* The mutation: every layer is checked with the formula of layer 0.
ExpectedClaimUnscaled(layer_id, a_r, m_r, alpha, beta, o_1, o_2) ==
    FAdd(FMul(a_r, FAdd(o_1, o_2)), FMul(m_r, FMul(o_1, o_2)))

\* let current_claim = if layer_id == 0 { .. } else { .. }
ExpectedClaim(layer_id, a_r, m_r, alpha, beta, o_1, o_2) ==
    IF layer_id = 0
    THEN FAdd(FMul(a_r, FAdd(o_1, o_2)), FMul(m_r, FMul(o_1, o_2)))
    ELSE FAdd(FMul(FMul(alpha, a_r), FAdd(o_1, o_2)),
              FMul(FMul(beta, m_r), FMul(o_1, o_2)))

get_verifier_claim(layer, init_random_challenge, sumcheck_random_challenges, o_1, o_2, transcript, layer_id) ==
    LET r_b == FirstHalf(sumcheck_random_challenges)
        r_c == SecondHalf(sumcheck_random_challenges)
        all_random_challenges == AssemblePoint(init_random_challenge, r_b, r_c)
        a_r == Evaluate(get_add_mul_i(layer, "Add"), all_random_challenges)
        m_r == Evaluate(get_add_mul_i(layer, "Mul"), all_random_challenges)
        t1 == TranscriptAppend(transcript, <<o_1>>)
        alpha == Challenge(t1)
        t2 == TranscriptAppend(TranscriptSample(t1), <<o_2>>)
        beta == Challenge(t2)
        current_claim == ExpectedClaim(layer_id, a_r, m_r, alpha, beta, o_1, o_2)
        next_claim == FAdd(FMul(alpha, o_1), FMul(beta, o_2))
    IN  [current_claim |-> current_claim, next_claim |-> next_claim,
         alpha |-> alpha, beta |-> beta, transcript |-> TranscriptSample(t2),
         log_at_claim |-> Len(TranscriptSample(t2).log),
         point |-> all_random_challenges, a_r |-> a_r, m_r |-> m_r]

\* verify, up to the loop
VerifyStart ==
    /\ vpc = "idle"
    /\ ppc = "idle"
    /\ Len(returned) = MaxInvocations
    /\ \E kind \in { k \in TamperKinds : Applicable(returned[1], k) } :
         \E proof \in {Tampered(returned[1], kind)} :
           \E init \in {initiate_protocol(TranscriptNew, proof.output_poly)} :
             /\ tamper' = kind
             /\ verifier' = [NoVerifier EXCEPT
                               !.transcript = init.transcript,
                               !.proof = proof,
                               !.layers = Reverse(circuit),
                               !.current_claim = init.m_0,
                               !.current_random_challenge = init.random_challenge]
    /\ vpc' = "sumcheck"
    /\ UNCHANGED <<circuit, inputs, ppc, prover, returned, proveLogs, vresult,
                   stdout, kernel>>

\* the head of the loop of verify: gkr_verify and the test of its verdict
VerifySumcheck ==
    /\ vpc = "sumcheck"
    /\ verifier.i < Len(verifier.layers)
    /\ IF verifier.i >= Len(verifier.proof.proof_polynomials)
       THEN \* proof.proof_polynomials[i] is out of bounds
            /\ vresult' = "panic"
            /\ vpc' = "done"
            /\ UNCHANGED verifier
       ELSE \E sum_check_verify \in
                   {gkr_verify(verifier.proof.proof_polynomials[verifier.i + 1],
                               verifier.current_claim, verifier.transcript)} :
              /\ verifier' = [verifier EXCEPT
                                !.transcript = sum_check_verify.transcript,
                                !.sum_check_verify = sum_check_verify,
                                !.trace = Append(@,
                                    [i |-> verifier.i,
                                     state |-> "AwaitSumcheck",
                                     claim |-> verifier.current_claim,
                                     verified |-> sum_check_verify.verified])]
              /\ IF SumcheckAccepted(sum_check_verify)
                 THEN vpc' = "claim" /\ UNCHANGED vresult
                 ELSE vpc' = "done" /\ vresult' = "false"
    /\ UNCHANGED <<circuit, inputs, ppc, prover, returned, proveLogs, tamper,
                   stdout, kernel>>

\* the rest of the loop body: get_verifier_claim and the claim check
VerifyClaim ==
    /\ vpc = "claim"
    /\ IF verifier.i >= Len(verifier.proof.claimed_evaluations)
       THEN \* proof.claimed_evaluations[i] is out of bounds
            /\ vresult' = "panic"
            /\ vpc' = "done"
            /\ UNCHANGED <<verifier, stdout>>
       ELSE LET i == verifier.i
                scv == verifier.sum_check_verify
                layer == verifier.layers[i + 1]
                o_1 == verifier.proof.claimed_evaluations[i + 1][1]
                o_2 == verifier.proof.claimed_evaluations[i + 1][2]
            IN
            \E c \in {get_verifier_claim(layer, verifier.current_random_challenge,
                                         scv.random_challenges, o_1, o_2,
                                         verifier.transcript, i)} :
            LET entry == [i |-> i, state |-> "CheckClaim",
                          layer |-> layer,
                          random_challenges |-> scv.random_challenges,
                          log_before |-> Len(verifier.transcript.log),
                          log_at_check |-> c.log_at_claim,
                          claim |-> c.current_claim,
                          final_claimed_sum |-> scv.final_claimed_sum,
                          next_claim |-> c.next_claim,
                          alpha |-> c.alpha, beta |-> c.beta,
                          used_alpha |-> verifier.current_alpha,
                          used_beta |-> verifier.current_beta,
                          init_random_challenge |->
                              verifier.current_random_challenge,
                          point |-> c.point, a_r |-> c.a_r, m_r |-> c.m_r,
                          o_1 |-> o_1, o_2 |-> o_2]
            IN
            IF ClaimHolds(c.current_claim, scv.final_claimed_sum)
            THEN /\ stdout' = Append(stdout, <<"check on layer passed", i>>)
                 /\ verifier' = [verifier EXCEPT
                        !.current_claim = c.next_claim,
                        !.current_random_challenge = Challenge(c.transcript),
                        !.transcript = TranscriptSample(c.transcript),
                        !.sumcheck_random_challenges =
                            Append(@, scv.random_challenges),
                        !.current_alpha = c.alpha,
                        !.current_beta = c.beta,
                        !.i = i + 1,
                        !.trace = Append(@, entry)]
                 /\ vpc' = "sumcheck"
                 /\ UNCHANGED vresult
            ELSE /\ verifier' = [verifier EXCEPT
                        !.transcript = c.transcript,
                        !.trace = Append(@, entry)]
                 /\ vpc' = "done"
                 /\ vresult' = "false"
                 /\ UNCHANGED stdout
    /\ UNCHANGED <<circuit, inputs, ppc, prover, returned, proveLogs, tamper,
                   kernel>>

\* after the loop: the reconciliation with the input layer
VerifyFinal ==
    /\ vpc = "sumcheck"
    /\ verifier.i >= Len(verifier.layers)
    /\ LET scr == verifier.sumcheck_random_challenges
           r_count == Len(scr)
       IN  IF r_count < 2
           THEN \* sumcheck_random_challenges[r_count - 2]: r_count - 2 underflows
                /\ vresult' = "panic"
                /\ UNCHANGED <<verifier, stdout>>
           ELSE LET r_1 == FirstHalf(scr[r_count - 1])
                    r_2 == SecondHalf(scr[r_count - 1])
                    input_fbc_poly ==
                        get_merged_fbc_poly(
                            verifier.layers[Len(verifier.layers)],
                            inputs, inputs, r_1, r_2,
                            verifier.current_alpha, verifier.current_beta)
                IN
                \E input_layer_claim \in
                       {SumPolyEvaluate(input_fbc_poly, scr[r_count])} :
                  /\ stdout' = Append(stdout,
                         <<"final claim", verifier.current_claim,
                           input_layer_claim>>)
                  /\ verifier' = [verifier EXCEPT
                         !.trace = Append(@,
                             [i |-> verifier.i, state |-> "Final",
                              r_1 |-> r_1, r_2 |-> r_2,
                              alpha |-> verifier.current_alpha,
                              beta |-> verifier.current_beta,
                              point |-> scr[r_count],
                              input_layer_claim |-> input_layer_claim,
                              claim |-> verifier.current_claim])]
                  /\ vresult' =
                         IF FinalAccept(input_layer_claim, verifier.current_claim)
                         THEN "true" ELSE "false"
    /\ vpc' = "done"
    /\ UNCHANGED <<circuit, inputs, ppc, prover, returned, proveLogs, tamper,
                   kernel>>

\* ------------------------------------------------------ specifications
Next ==
    \/ ProveStart
    \/ ProveLayer
    \/ ProveReturn
    \/ VerifyStart
    \/ VerifySumcheck
    \/ VerifyClaim
    \/ VerifyFinal

Spec == Init /\ [][Next]_vars

\* The prove calls alone.  prove is straight-line code: a call that can
\* take a step does.
ProveNext == ProveStart \/ ProveLayer \/ ProveReturn

ProveSpec == Init /\ [][ProveNext]_vars /\ WF_vars(ProveNext)

\* A direct call of add_mul_polynomials on drawn vectors.
KernelValues == 0 .. (MaxInput + 1)

KernelVectors == UNION { [1 .. n -> KernelValues] : n \in 1 .. MaxLen }

KernelInit ==
    /\ kernel \in [poly_a : KernelVectors, poly_b : KernelVectors, op : Ops,
                   result : {<<>>}, called : {FALSE}]
    /\ circuit = << <<"Add">> >>
    /\ inputs = <<0, 0>>
    /\ ppc = "off"
    /\ prover = NoProver
    /\ returned = <<>>
    /\ proveLogs = <<>>
    /\ vpc = "off"
    /\ verifier = NoVerifier
    /\ tamper = "none"
    /\ vresult = "none"
    /\ stdout = <<>>

KernelCall ==
    /\ ~kernel.called
    /\ kernel' = [kernel EXCEPT
                    !.result = add_mul_polynomials(kernel.poly_a, kernel.poly_b,
                                                   kernel.op),
                    !.called = TRUE]
    /\ UNCHANGED <<circuit, inputs, ppc, prover, returned, proveLogs, vpc,
                   verifier, tamper, vresult, stdout>>

KernelSpec == KernelInit /\ [][KernelCall]_vars

\* --------------------------------------------------------- properties
Last(s) == s[Len(s)]

HonestDone == vpc = "done" /\ tamper = "honest"

\* C1: completeness.  Whenever verify has finished on the Proof prove
\* returned for the same circuit and inputs, its result is true.
Completeness == HonestDone => vresult = "true"

\* the trace entries of verify that record a rejection
Rejecting(e) ==
    \/ e.state = "AwaitSumcheck" /\ ~e.verified
    \/ e.state = "CheckClaim" /\ e.claim # e.final_claimed_sum

\* C2: no partial acceptance.  verify returns true only after every layer's
\* sum-check was accepted and every layer's expected value equalled the
\* sum-check's final claimed sum and the input-layer value equalled the
\* accumulated claim; and a rejecting layer is the last thing verify
\* processed, with the result false.
NoPartialAcceptance ==
    LET T == verifier.trace
    IN  /\ vresult = "true" =>
              /\ \A i \in 0 .. (Len(circuit) - 1) :
                    /\ \E k \in 1 .. Len(T) :
                          T[k].state = "AwaitSumcheck" /\ T[k].i = i /\ T[k].verified
                    /\ \E k \in 1 .. Len(T) :
                          /\ T[k].state = "CheckClaim" /\ T[k].i = i
                          /\ T[k].claim = T[k].final_claimed_sum
              /\ Last(T).state = "Final"
              /\ Last(T).input_layer_claim = Last(T).claim
        /\ \A k \in 1 .. Len(T) :
              Rejecting(T[k]) =>
                  k = Len(T) /\ vpc = "done" /\ vresult = "false"
        /\ (vpc = "done" /\ T # <<>> /\ Last(T).state = "Final"
               /\ Last(T).input_layer_claim # Last(T).claim) => vresult = "false"

\* verify accepted a Proof of a two-layer circuit
AcceptedWitness == vresult = "true" /\ Len(circuit) = 2 /\ Len(verifier.trace) = 5

\* C3: verify never faults.  In no state has verify ended in a panic.
VerifyNeverFaults == vresult # "panic"

\* C4: on the Proof prove returned, verify performs exactly the transcript
\* operations prove performed, in the same order and with the same values.
SameTranscript == HonestDone => verifier.transcript.log = proveLogs[1]

\* C5: determinism of prove.  Any two Proofs returned by prove calls on the
\* same circuit and inputs are equal.
ProveDeterministic ==
    \A j, k \in 1 .. Len(returned) : returned[j] = returned[k]

\* two prove calls have returned a Proof that depends on the challenges
TwoProofsWitness ==
    /\ Len(returned) >= 2
    /\ \E k \in 1 .. Len(returned[2].claimed_evaluations) :
          returned[2].claimed_evaluations[k] # <<0, 0>>

\* C6: output padding.  A single circuit output is returned as the two
\* evaluations (output, 0); a wider output layer is returned as it is.
OutputPadding ==
    \A k \in 1 .. Len(returned) :
        LET out == Last(CircuitEvaluate(circuit, inputs))
        IN  IF Len(out) = 1
            THEN returned[k].output_poly = <<out[1], 0>>
            ELSE returned[k].output_poly = out

\* a Proof was returned for a circuit with a single, non-zero output
PaddedWitness ==
    /\ Len(returned) >= 1
    /\ Len(Last(circuit)) = 1
    /\ returned[1].output_poly[1] # 0
    /\ Len(returned[1].output_poly) = 2

\* C7: kernel law.  The result of add_mul_polynomials(a, b, op) has length
\* |a| * |b| and holds op.apply(a[i], b[j]) at index i * |b| + j.
KernelLaw ==
    kernel.called =>
        LET a == kernel.poly_a
            b == kernel.poly_b
        IN  /\ Len(kernel.result) = Len(a) * Len(b)
            /\ \A i \in 0 .. (Len(a) - 1) : \A j \in 0 .. (Len(b) - 1) :
                  kernel.result[(i * Len(b)) + j + 1] =
                      IF kernel.op = "Add" THEN (a[i + 1] + b[j + 1]) % FqModulus
                      ELSE (a[i + 1] * b[j + 1]) % FqModulus

\* the kernel was applied to vectors of different lengths
KernelWitness ==
    /\ kernel.called
    /\ Len(kernel.poly_a) = 1 /\ Len(kernel.poly_b) = 2
    /\ kernel.op = "Mul"
    /\ kernel.result = <<2, 4>>

\* C8: prove is total.  Every prove call, from its start, reaches its
\* return, and at the return the sum-check prover has been run exactly as
\* often as the circuit has layers.
ProveTotal ==
    (ppc = "loop" \/ returned = <<>>)
        ~> (ppc = "idle" /\ returned # <<>> /\ prover.sumcheck_runs = Len(circuit))

\* a prove call on a two-layer circuit has returned
ProveReturnedWitness ==
    /\ ppc = "idle" /\ Len(returned) >= 1
    /\ Len(circuit) = 2 /\ prover.sumcheck_runs = 2

\* C9: verify has no observable side effect: nothing is ever written to the
\* standard output.
VerifySilent == stdout = <<>>

\* C10: proof shape.  A returned Proof has one entry of proof_polynomials and
\* one of claimed_evaluations per layer; entry k of both comes from loop
\* iteration k, and iteration 0 is the one of the output layer.
ProofShape ==
    /\ ppc = "loop" =>
          /\ Len(prover.proof_polys) = prover.idx
          /\ Len(prover.claimed_evaluations) = prover.idx
    /\ \A n \in 1 .. Len(returned) :
          /\ Len(returned[n].proof_polynomials) = Len(circuit)
          /\ Len(returned[n].claimed_evaluations) = Len(circuit)
    /\ (ppc = "idle" /\ returned # <<>>) =>
          LET proof == Last(returned)
              T == prover.trace
              values == CircuitEvaluate(circuit, inputs)
          IN  /\ Len(T) = Len(circuit)
              /\ \A k \in 1 .. Len(T) :
                    /\ T[k].idx = k - 1
                    /\ proof.proof_polynomials[k] = T[k].proof_polynomials
                    /\ proof.claimed_evaluations[k] = <<T[k].o_1, T[k].o_2>>
                    /\ T[k].w_i = values[Len(circuit) + 1 - k]

\* a Proof of a two-layer circuit whose two claimed pairs differ was returned
ShapeWitness ==
    /\ ppc = "idle" /\ returned # <<>> /\ Len(circuit) = 2
    /\ returned[1].claimed_evaluations[1] # returned[1].claimed_evaluations[2]

\* C11: the per-layer states of verify.  Every claim check follows the
\* sum-check of its layer; the comparison of the expected value with the
\* sum-check's final claimed sum is made before alpha and beta are sampled
\* (the transcript is as the sum-check left it); and a failed comparison ends
\* verify with the transcript holding no append and no sample of that layer.
LayerStateOrder ==
    LET T == verifier.trace
    IN  \A k \in 1 .. Len(T) :
            T[k].state = "CheckClaim" =>
                /\ k > 1
                /\ T[k - 1].state = "AwaitSumcheck"
                /\ T[k - 1].i = T[k].i
                /\ T[k].log_at_check = T[k].log_before
                /\ T[k].claim # T[k].final_claimed_sum =>
                       /\ k = Len(T)
                       /\ vresult = "false"
                       /\ Len(verifier.transcript.log) = T[k].log_before

\* the five transcript operations that close a layer, from position p on:
\* append o_1, sample alpha, append o_2, sample beta, sample the next start
MergeAppendsFirst(L, p, o_1, alpha, o_2, beta) ==
    /\ Len(L) >= p + 4
    /\ L[p + 1] = <<"append", <<o_1>>>>
    /\ L[p + 2] = <<"sample", alpha>>
    /\ L[p + 3] = <<"append", <<o_2>>>>
    /\ L[p + 4] = <<"sample", beta>>

\* the operations of initiate_protocol: the output evaluations are appended,
\* then r0 is sampled, then m0 is appended
SeedAppendsFirst(L, output_poly) ==
    /\ Len(L) >= 3
    /\ L[1] = <<"append", output_poly>>
    /\ L[2][1] = "sample"
    /\ L[3][1] = "append" /\ Len(L[3][2]) = 1

\* C12: append precedes the dependent sample.  In prove and in verify the
\* transcript starts with the append of all output evaluations, followed by
\* the sample of r0; in every layer the operations after the sum-check are
\* append o1, sample alpha, append o2, sample beta, and the layer-closing
\* sample comes right after beta.
AppendPrecedesSample ==
    /\ (ppc = "loop" \/ returned # <<>>) =>
          LET L == prover.transcript.log
              T == prover.trace
          IN  /\ SeedAppendsFirst(L, prover.output_poly)
              /\ \A k \in 1 .. Len(T) :
                    /\ MergeAppendsFirst(L, T[k].log_before, T[k].o_1,
                                         T[k].new_alpha, T[k].o_2, T[k].new_beta)
                    /\ Len(L) >= T[k].log_before + 5
                    /\ L[T[k].log_before + 5][1] = "sample"
    /\ vpc \notin {"idle", "off"} =>
          LET L == verifier.transcript.log
              T == verifier.trace
          IN  /\ SeedAppendsFirst(L, verifier.proof.output_poly)
              /\ \A k \in 1 .. Len(T) :
                    T[k].state = "CheckClaim" =>
                        /\ MergeAppendsFirst(L, T[k].log_before, T[k].o_1,
                                             T[k].alpha, T[k].o_2, T[k].beta)
                        /\ T[k].claim = T[k].final_claimed_sum =>
                               /\ Len(L) >= T[k].log_before + 5
                               /\ L[T[k].log_before + 5][1] = "sample"

\* prove has returned and verify has passed the claim check of layer 1
MergeOrderWitness ==
    /\ returned # <<>> /\ Len(prover.trace) = 2
    /\ \E k \in 1 .. Len(verifier.trace) :
          /\ verifier.trace[k].state = "CheckClaim"
          /\ verifier.trace[k].i = 1
          /\ verifier.trace[k].claim = verifier.trace[k].final_claimed_sum
          /\ verifier.trace[k].alpha # verifier.trace[k].beta

\* C13: the layer polynomials of prove.  The polynomial of iteration 0 is
\* the initial form bound to the r0 sampled in initiate_protocol; the
\* polynomial of every later iteration is the merged form built from the two
\* halves of the preceding iteration's sum-check randomness and from the
\* alpha and beta sampled in the preceding iteration.
LayerPolynomialForms ==
    (ppc = "loop" \/ returned # <<>>) =>
        LET T == prover.trace
            L == prover.transcript.log
        IN  \A k \in 1 .. Len(T) :
                IF k = 1
                THEN T[k].fbc_poly =
                         get_fbc_poly(L[2][2], T[k].layer, T[k].w_i, T[k].w_i)
                ELSE LET rs == T[k - 1].random_challenges
                         h  == Len(rs) \div 2
                         prev == T[k - 1].log_before
                     IN  /\ h >= 1
                         /\ T[k].fbc_poly =
                                get_merged_fbc_poly(T[k].layer, T[k].w_i, T[k].w_i,
                                    SubSeq(rs, 1, h), SubSeq(rs, h + 1, Len(rs)),
                                    L[prev + 2][2], L[prev + 4][2])

\* prove has built a merged polynomial from two different halves and from
\* coefficients that are not both zero
MergedFormWitness ==
    /\ returned # <<>> /\ Len(prover.trace) = 2
    /\ prover.trace[2].r_b # prover.trace[2].r_c
    /\ prover.trace[2].alpha # 0
    /\ prover.trace[2].alpha # prover.trace[2].beta
    /\ \E j \in 1 .. Len(prover.trace[2].fbc_poly[1][1]) :
          prover.trace[2].fbc_poly[1][1][j] # 0

\* C14: the walk over the layers.  In prove and in verify loop index 0 is the
\* last element of circuit.layers (the output layer) and the last index is
\* its first element (the layer next to the inputs); at index i prove takes
\* as W_next the values one step deeper, which are the inputs exactly at the
\* last index.
TopDownWalk ==
    LET depth  == Len(circuit)
        values == CircuitEvaluate(circuit, inputs)
    IN  /\ (ppc = "loop" \/ returned # <<>>) =>
              /\ \A j \in 1 .. (depth + 1) :
                    prover.circuit_evaluations[j] = values[depth + 2 - j]
              /\ \A k \in 1 .. Len(prover.trace) :
                    /\ prover.trace[k].idx = k - 1
                    /\ prover.trace[k].layer = circuit[depth + 1 - k]
                    /\ prover.trace[k].w_i = values[depth + 1 - k]
                    /\ prover.trace[k].w_i = inputs <=> k = depth
        /\ vpc \notin {"idle", "off"} =>
              /\ Len(verifier.layers) = depth
              /\ \A j \in 1 .. depth : verifier.layers[j] = circuit[depth + 1 - j]
              /\ \A k \in 1 .. Len(verifier.trace) :
                    verifier.trace[k].state = "CheckClaim" =>
                        verifier.trace[k].layer = circuit[depth - verifier.trace[k].i]

\* prove and verify have both gone through the two layers of a circuit whose
\* layers differ
TopDownWitness ==
    /\ Len(circuit) = 2 /\ circuit[1] # <<circuit[2][1], circuit[2][1]>>
    /\ returned # <<>> /\ Len(prover.trace) = 2
    /\ \E k \in 1 .. Len(verifier.trace) :
          verifier.trace[k].state = "CheckClaim" /\ verifier.trace[k].i = 1

\* the multilinear extension of a table at a point, as the sum over the
\* hypercube of value times Lagrange basis (variable 1 is the leading bit)
RECURSIVE BasisAt(_, _, _)
BasisAt(j, point, v) ==
    IF v > Len(point) THEN 1
    ELSE LET bit == (j \div Pow2(Len(point) - v)) % 2
             w   == IF bit = 1 THEN point[v]
                    ELSE (1 + FqModulus - point[v]) % FqModulus
         IN  (w * BasisAt(j, point, v + 1)) % FqModulus

RECURSIVE ExtensionFrom(_, _, _)
ExtensionFrom(table, point, j) ==
    IF j >= Len(table) THEN 0
    ELSE ((table[j + 1] * BasisAt(j, point, 1))
              + ExtensionFrom(table, point, j + 1)) % FqModulus

ExtensionAt(table, point) == ExtensionFrom(table, point, 0)

\* C15: the expected value of the verifier.  At every claim check the
\* expected value is a_r*(o1+o2) + m_r*(o1*o2) for layer 0 and
\* alpha*a_r*(o1+o2) + beta*m_r*(o1*o2) for every later layer, a_r and m_r
\* being the layer's add and mul wiring extensions at the assembled point and
\* alpha, beta the challenges sampled in that layer after o1 and after o2 were
\* appended.
ExpectedValueFormula ==
    LET T == verifier.trace
        L == verifier.transcript.log
    IN  \A k \in 1 .. Len(T) :
            T[k].state = "CheckClaim" =>
                LET e     == T[k]
                    a_r   == ExtensionAt(get_add_mul_i(e.layer, "Add"), e.point)
                    m_r   == ExtensionAt(get_add_mul_i(e.layer, "Mul"), e.point)
                    alpha == L[e.log_before + 2][2]
                    beta  == L[e.log_before + 4][2]
                    sum   == e.o_1 + e.o_2
                    prod  == e.o_1 * e.o_2
                IN  /\ L[e.log_before + 1] = <<"append", <<e.o_1>>>>
                    /\ L[e.log_before + 2][1] = "sample"
                    /\ L[e.log_before + 3] = <<"append", <<e.o_2>>>>
                    /\ L[e.log_before + 4][1] = "sample"
                    /\ e.claim =
                          IF e.i = 0
                          THEN ((a_r * sum) + (m_r * prod)) % FqModulus
                          ELSE ((alpha * a_r * sum) + (beta * m_r * prod)) % FqModulus

\* verify has computed, for layer 1, an expected value that the formula of
\* layer 0 would not give
ExpectedValueWitness ==
    \E k \in 1 .. Len(verifier.trace) :
        LET e == verifier.trace[k]
        IN  /\ e.state = "CheckClaim" /\ e.i = 1
            /\ e.claim # 0
            /\ e.claim # (FMul(e.a_r, FAdd(e.o_1, e.o_2))
                             + FMul(e.m_r, FMul(e.o_1, e.o_2))) % FqModulus

\* the claim check of layer i in the trace of verify
ClaimCheckOf(T, i) ==
    CHOOSE k \in 1 .. Len(T) : T[k].state = "CheckClaim" /\ T[k].i = i

\* C16: the point of the wiring extensions.  At the claim check of layer i the
\* point is [r_layer_start] ++ r_b ++ r_c, r_b and r_c being the first and the
\* second half of the layer's sum-check randomness; r_layer_start is r0 for
\* layer 0 and otherwise the challenge sampled at the end of layer i-1, after
\* the claim check of that layer passed; the point is one longer than the
\* randomness.
WiringPoint ==
    LET T == verifier.trace
        L == verifier.transcript.log
    IN  \A k \in 1 .. Len(T) :
            T[k].state = "CheckClaim" =>
                LET e  == T[k]
                    rs == e.random_challenges
                    h  == Len(rs) \div 2
                    start ==
                        IF e.i = 0 THEN L[2][2]
                        ELSE L[T[ClaimCheckOf(T, e.i - 1)].log_before + 5][2]
                IN  /\ T[k - 1].state = "AwaitSumcheck" /\ T[k - 1].i = e.i
                    /\ e.i > 0 =>
                          /\ \E j \in 1 .. (k - 1) :
                                /\ T[j].state = "CheckClaim" /\ T[j].i = e.i - 1
                                /\ T[j].claim = T[j].final_claimed_sum
                          /\ L[T[ClaimCheckOf(T, e.i - 1)].log_before + 5][1] = "sample"
                    /\ Len(e.point) = 1 + Len(rs)
                    /\ e.point[1] = start
                    /\ \A j \in 1 .. h : e.point[1 + j] = rs[j]
                    /\ \A j \in (h + 1) .. Len(rs) : e.point[1 + j] = rs[j]
                    /\ e.point = <<start>> \o SubSeq(rs, 1, h) \o SubSeq(rs, h + 1, Len(rs))

\* verify has assembled the point of layer 1 from two different halves
WiringPointWitness ==
    \E k \in 1 .. Len(verifier.trace) :
        LET e == verifier.trace[k]
        IN  /\ e.state = "CheckClaim" /\ e.i = 1
            /\ Len(e.point) = 5
            /\ SubSeq(e.point, 2, 3) # SubSeq(e.point, 4, 5)
            /\ e.point[1] # 0

\* the value of a sum of products of two tables at a point
SumOfProductsAt(f, point) ==
    ((ExtensionAt(f[1][1], point) * ExtensionAt(f[1][2], point))
       + (ExtensionAt(f[2][1], point) * ExtensionAt(f[2][2], point))) % FqModulus

\* every layer of the circuit has a passed claim check in the trace
AllLayersPassed(T) ==
    \A i \in 0 .. (Len(circuit) - 1) :
        \E k \in 1 .. Len(T) :
            /\ T[k].state = "CheckClaim" /\ T[k].i = i
            /\ T[k].claim = T[k].final_claimed_sum

LineAt(table, r) ==
    ((((1 + FqModulus - r) % FqModulus) * table[1]) + (r * table[2])) % FqModulus

\* alpha*o1 + beta*o2 for the operations that close a layer at position p of L
FoldedAt(L, p) ==
    ((L[p + 2][2] * L[p + 1][2][1]) + (L[p + 4][2] * L[p + 3][2][1])) % FqModulus

\* C18: claim folding.  In prove and in verify the claim handed to the
\* sum-check of layer 0 is m0 = output_poly(r0), and the claim handed to the
\* sum-check of layer i+1 is alpha*o1 + beta*o2 with the alpha, beta sampled
\* in layer i and the pair (o1, o2) recorded for layer i; on the Proof prove
\* returned, verify holds at the start of every layer the claim prove held.
ClaimFolding ==
    /\ (ppc = "loop" \/ returned # <<>>) =>
          LET T == prover.trace
              L == prover.transcript.log
          IN  /\ L[3] = <<"append", <<LineAt(prover.output_poly, L[2][2])>>>>
              /\ \A k \in 1 .. Len(T) :
                    /\ L[T[k].log_before + 1][2] = <<T[k].o_1>>
                    /\ L[T[k].log_before + 3][2] = <<T[k].o_2>>
                    /\ prover.claimed_evaluations[k] = <<T[k].o_1, T[k].o_2>>
                    /\ T[k].claimed_sum =
                          IF k = 1 THEN LineAt(prover.output_poly, L[2][2])
                          ELSE FoldedAt(L, T[k - 1].log_before)
              /\ T # <<>> => prover.claimed_sum = FoldedAt(L, Last(T).log_before)
    /\ vpc \notin {"idle", "off"} =>
          LET T == verifier.trace
              L == verifier.transcript.log
              proof == verifier.proof
          IN  \A k \in 1 .. Len(T) :
                  T[k].state = "AwaitSumcheck" =>
                      /\ T[k].claim =
                            IF T[k].i = 0 THEN LineAt(proof.output_poly, L[2][2])
                            ELSE FoldedAt(L, T[ClaimCheckOf(T, T[k].i - 1)].log_before)
                      /\ T[k].i > 0 =>
                            LET e == T[ClaimCheckOf(T, T[k].i - 1)]
                            IN  <<e.o_1, e.o_2>> = proof.claimed_evaluations[T[k].i]
                      /\ tamper = "honest" =>
                            T[k].claim = prover.trace[T[k].i + 1].claimed_sum

\* prove and, on its Proof, verify have started layer 1 with a folded claim
\* that depends on which coefficient goes with which evaluation
FoldingWitness ==
    /\ tamper = "honest" /\ Len(prover.trace) = 2
    /\ prover.trace[2].claimed_sum # 0
    /\ prover.trace[1].new_alpha # prover.trace[1].new_beta
    /\ prover.trace[1].o_1 # prover.trace[1].o_2
    /\ \E k \in 1 .. Len(verifier.trace) :
          verifier.trace[k].state = "AwaitSumcheck" /\ verifier.trace[k].i = 1

\* C19: merge-coefficient agreement.  On the Proof prove returned, the pair
\* (alpha, beta) verify uses in the expected value of a layer i >= 1, and the
\* pair it uses to build the polynomial of the final reconciliation, is the
\* pair prove handed to get_merged_fbc_poly for that layer: the pair sampled
\* in layer i-1.
MergeCoefficientAgreement ==
    tamper = "honest" =>
        LET T == verifier.trace
            P == prover.trace
        IN  \A k \in 1 .. Len(T) :
                /\ (T[k].state = "CheckClaim" /\ T[k].i >= 1) =>
                      /\ T[k].alpha = P[T[k].i + 1].alpha
                      /\ T[k].beta = P[T[k].i + 1].beta
                      /\ T[k].alpha = P[T[k].i].new_alpha
                      /\ T[k].beta = P[T[k].i].new_beta
                /\ T[k].state = "Final" =>
                      /\ T[k].alpha = P[Len(P)].alpha
                      /\ T[k].beta = P[Len(P)].beta

\* C20: the order of circuit.layers.  No step of prove or of verify changes
\* the order of the caller's circuit.layers; from its start on, a verify call
\* works on the layers in reversed order, and its copy stays as it is for the
\* rest of the call (one reversal per call).
CircuitOrderKept ==
    /\ [](vpc \notin {"idle", "off"} =>
            /\ Len(verifier.layers) = Len(circuit)
            /\ \A j \in 1 .. Len(circuit) :
                  verifier.layers[j] = circuit[Len(circuit) + 1 - j])
    /\ [][/\ circuit' = circuit
          /\ vpc \notin {"idle", "off"} => verifier'.layers = verifier.layers]_vars

\* verify runs on a circuit of two layers that prove has been run on
CircuitOrderWitness ==
    /\ Len(circuit) = 2 /\ Len(returned) >= 1
    /\ Len(prover.trace) = 2
    /\ vpc = "done" /\ verifier.i = 2
    /\ verifier.layers # circuit

====
